---- MODULE Spec2Model ----
(***************************************************************************)
(* State-machine model of api/index.py (CouponDeck API): the in-memory     *)
(* admin session registry, the coupon collection of the document store,   *)
(* and the request handlers, split at their await points.                  *)
(*                                                                         *)
(* Representation of Python values:                                        *)
(*   str            a sequence of one-character strings                    *)
(*   None           the empty set;  any other value v is the set {v}       *)
(*   dict           a function from key names to (wrapped) values          *)
(*   datetime       a record of its components                             *)
(***************************************************************************)
EXTENDS Integers, Sequences, FiniteSets, TLC

VARIABLES admin_sessions, coupons, used_ids, now, req

vars == <<admin_sessions, coupons, used_ids, now, req>>

(***************************************************************************)
(* Bounds of the model.                                                    *)
(***************************************************************************)
MaxLogins == 2
MaxCoupons == 2
MaxClock == 1
MaxParts == 2

(***************************************************************************)
(* Python values.                                                          *)
(***************************************************************************)
None == {}
Some(v) == {v}
The(o) == CHOOSE v \in o : TRUE
EmptyDict == [k \in {} |-> None]

\* s.startswith(p)
StartsWith(s, p) == Len(s) >= Len(p) /\ SubSeq(s, 1, Len(p)) = p

\* s.replace(old, new): every non-overlapping occurrence, left to right
RECURSIVE Replace(_, _, _)
Replace(s, old, new) ==
    IF Len(s) = 0 THEN <<>>
    ELSE IF StartsWith(s, old)
         THEN new \o Replace(SubSeq(s, Len(old) + 1, Len(s)), old, new)
         ELSE <<Head(s)>> \o Replace(Tail(s), old, new)

(***************************************************************************)
(* Configuration and the literals of the source.                           *)
(***************************************************************************)
ADMIN_USERNAME == <<"r", "a", "j", "2", "1", "5", "1">>
ADMIN_PASSWORD == <<"p", "a", "s", "s", "r", "a", "j", "2", "1", "5", "1">>
BEARER == <<"B", "e", "a", "r", "e", "r", " ">>
IMAGE == <<"i", "m", "a", "g", "e", "/">>

(***************************************************************************)
(* datetime: now(timezone.utc), isoformat() and fromisoformat().           *)
(* The clock is a counter of half seconds, so that both a whole second     *)
(* (isoformat omits the fraction) and a fractional one occur.              *)
(***************************************************************************)
DateTimeNow(t) ==
    [year |-> 2025, month |-> 1, day |-> 1, hour |-> 0, minute |-> 0,
     second |-> t \div 2, microsecond |-> (t % 2) * 500000, utcoffset |-> 0]

DigitChars == <<"0", "1", "2", "3", "4", "5", "6", "7", "8", "9">>
DigitVal(c) == CHOOSE d \in 0..9 : DigitChars[d + 1] = c

\* zero-padded decimal of width w ("%0wd")
RECURSIVE Pad(_, _)
Pad(n, w) == IF w = 0 THEN <<>> ELSE Pad(n \div 10, w - 1) \o <<DigitChars[(n % 10) + 1]>>

RECURSIVE ParseInt(_)
ParseInt(s) == IF Len(s) = 0 THEN 0
               ELSE ParseInt(SubSeq(s, 1, Len(s) - 1)) * 10 + DigitVal(s[Len(s)])

\* utcoffset formatted as +HH:MM / -HH:MM
FormatOffset(m) ==
    LET a == IF m < 0 THEN 0 - m ELSE m
    IN  <<IF m < 0 THEN "-" ELSE "+">> \o Pad(a \div 60, 2) \o <<":">> \o Pad(a % 60, 2)

ParseOffset(s) ==
    LET a == ParseInt(SubSeq(s, 2, 3)) * 60 + ParseInt(SubSeq(s, 5, 6))
    IN  IF s[1] = "-" THEN 0 - a ELSE a

\* datetime.isoformat(): YYYY-MM-DDTHH:MM:SS[.ffffff]+HH:MM
IsoFormat(d) ==
    Pad(d.year, 4) \o <<"-">> \o Pad(d.month, 2) \o <<"-">> \o Pad(d.day, 2)
    \o <<"T">> \o Pad(d.hour, 2) \o <<":">> \o Pad(d.minute, 2) \o <<":">> \o Pad(d.second, 2)
    \o (IF d.microsecond # 0 THEN <<".">> \o Pad(d.microsecond, 6) ELSE <<>>)
    \o FormatOffset(d.utcoffset)

\* datetime.fromisoformat() on the strings isoformat() produces
FromIsoFormat(s) ==
    LET frac == Len(s) > 19 /\ s[20] = "."
        rest == IF frac THEN SubSeq(s, 27, Len(s)) ELSE SubSeq(s, 20, Len(s))
    IN  [year |-> ParseInt(SubSeq(s, 1, 4)), month |-> ParseInt(SubSeq(s, 6, 7)),
         day |-> ParseInt(SubSeq(s, 9, 10)), hour |-> ParseInt(SubSeq(s, 12, 13)),
         minute |-> ParseInt(SubSeq(s, 15, 16)), second |-> ParseInt(SubSeq(s, 18, 19)),
         microsecond |-> IF frac THEN ParseInt(SubSeq(s, 21, 26)) ELSE 0,
         utcoffset |-> ParseOffset(rest)]

(***************************************************************************)
(* The auth gate.                                                          *)
(***************************************************************************)
\* HTTPException(status_code, detail)
HTTPException(status, detail) == [ok |-> FALSE, status |-> status, detail |-> detail, token |-> None]

\* a gate that accepts any scheme word in front of the token
VerifyAdminToken_AnyScheme(authorization, sessions) ==
    IF authorization = None THEN HTTPException(401, "Not authenticated")
    ELSE IF The(authorization) = <<>> THEN HTTPException(401, "Not authenticated")
    ELSE LET token == Replace(Replace(The(authorization), BEARER, <<>>),
                              <<"T", "o", "k", "e", "n", " ">>, <<>>)
         IN  IF token \notin DOMAIN sessions
             THEN HTTPException(401, "Invalid or expired token")
             ELSE [ok |-> TRUE, status |-> 200, detail |-> "", token |-> Some(token)]

\* verify_admin_token(authorization), against the registry `sessions`
VerifyAdminToken(authorization, sessions) ==
    IF authorization = None THEN HTTPException(401, "Not authenticated")
    ELSE IF The(authorization) = <<>> \/ ~StartsWith(The(authorization), BEARER)
    THEN HTTPException(401, "Not authenticated")
    ELSE LET token == Replace(The(authorization), BEARER, <<>>)
         IN  IF token \notin DOMAIN sessions
             THEN HTTPException(401, "Invalid or expired token")
             ELSE [ok |-> TRUE, status |-> 200, detail |-> "", token |-> Some(token)]

\* a comparison that accepts one matching field
CredentialsOk_Either(username, password) ==
    username = ADMIN_USERNAME \/ password = ADMIN_PASSWORD

\* credentials.username == ADMIN_USERNAME and credentials.password == ADMIN_PASSWORD
CredentialsOk(username, password) ==
    username = ADMIN_USERNAME /\ password = ADMIN_PASSWORD

\* a login that starts the registry over: admin_sessions = {token: {...}}
RegisterSession_Replace(sessions, token, t) ==
    [k \in {token} |-> [username |-> ADMIN_USERNAME, logged_in_at |-> DateTimeNow(t)]]

\* admin_sessions[token] = {"username": ..., "logged_in_at": ...}
RegisterSession(sessions, token, t) ==
    [k \in DOMAIN sessions \cup {token} |->
        IF k = token THEN [username |-> ADMIN_USERNAME, logged_in_at |-> DateTimeNow(t)]
        ELSE sessions[k]]

\* secrets.token_urlsafe(32): 256 random bits in the URL-safe alphabet; the
\* model draws a value that was not drawn before (no collision), out of `pool`
NewTokens(sessions, pool) == pool \ DOMAIN sessions

(***************************************************************************)
(* The coupon models and the document store.                               *)
(***************************************************************************)
UpdateFields ==
    {"store_name", "logo_url", "title", "code", "description", "category",
     "expiry_date", "featured"}

\* a create model that lacks the logo_url field
ParseCouponCreate_NoLogo(body) ==
    [f \in UpdateFields |->
        IF f = "logo_url" THEN None
        ELSE IF f \in DOMAIN body THEN body[f]
        ELSE IF f = "featured" THEN Some(FALSE) ELSE None]

\* CouponCreate(**body).model_dump(): unknown keys are ignored, logo_url
\* defaults to None and featured to False
ParseCouponCreate(body) ==
    [f \in UpdateFields |->
        IF f \in DOMAIN body THEN body[f]
        ELSE IF f = "featured" THEN Some(FALSE) ELSE None]

\* an update model that keeps unknown keys (extra = "allow")
ParseCouponUpdate_KeepExtras(body) ==
    [f \in UpdateFields \cup DOMAIN body |-> IF f \in DOMAIN body THEN body[f] ELSE None]

\* CouponUpdate(**body).model_dump(): unknown keys are ignored, every field
\* that is absent (or null) is None
ParseCouponUpdate(body) ==
    [f \in UpdateFields |-> IF f \in DOMAIN body THEN body[f] ELSE None]

\* the dump without the filter
UpdateData_NoFilter(dump) == dump

\* a filter that lets a null logo_url through, to clear the logo
UpdateData_NullLogo(dump) ==
    [f \in {k \in DOMAIN dump : dump[k] # None \/ k = "logo_url"} |-> dump[f]]

\* {k: v for k, v in coupon_update.model_dump().items() if v is not None}
UpdateData(dump) ==
    [f \in {k \in DOMAIN dump : dump[k] # None} |-> dump[f]]

\* Coupon(**coupon.model_dump()): id and created_at from their default factories
NewCoupon(dump, id, t) ==
    [f \in DOMAIN dump \cup {"id", "created_at"} |->
        IF f = "id" THEN Some(id)
        ELSE IF f = "created_at" THEN Some(DateTimeNow(t))
        ELSE dump[f]]

\* doc = coupon_obj.model_dump(); doc['created_at'] = doc['created_at'].isoformat()
ToDoc(coupon_obj) ==
    [coupon_obj EXCEPT !["created_at"] = Some(IsoFormat(The(@)))]

\* the created_at of a document read from the store is a str (ToDoc wrote it):
\* coupon['created_at'] = datetime.fromisoformat(coupon['created_at'])
FromDoc(doc) ==
    [doc EXCEPT !["created_at"] = Some(FromIsoFormat(The(@)))]

\* uuid.uuid4(): an id that was not generated before; ids are opaque, the
\* model takes the first unused one of the sequence `pool`
NewIds(used, pool) ==
    IF \E i \in 1..Len(pool) : pool[i] \notin used
    THEN {pool[CHOOSE i \in 1..Len(pool) :
                  pool[i] \notin used /\ \A j \in 1..(i - 1) : pool[j] \in used]}
    ELSE {}

Matches(coll, id) == {i \in 1..Len(coll) : coll[i]["id"] = Some(id)}
First(S) == CHOOSE i \in S : \A j \in S : i <= j

\* db.coupons.find_one({"id": coupon_id}, {"_id": 0})
FindOne(coll, id) ==
    IF Matches(coll, id) = {} THEN None ELSE Some(coll[First(Matches(coll, id))])

\* db.coupons.insert_one(doc)
InsertOne(coll, doc) == Append(coll, doc)

\* db.coupons.update_one({"id": coupon_id}, {"$set": update_data})
UpdateOne(coll, id, update_data) ==
    IF Matches(coll, id) = {} THEN coll
    ELSE [coll EXCEPT ![First(Matches(coll, id))] =
            [f \in DOMAIN @ \cup DOMAIN update_data |->
                IF f \in DOMAIN update_data THEN update_data[f] ELSE @[f]]]

\* a delete that removes the oldest record instead of the matching one
DeleteOne_First(coll, id) ==
    IF Matches(coll, id) = {} THEN coll ELSE Tail(coll)

\* db.coupons.delete_one({"id": coupon_id})
DeleteOne(coll, id) ==
    IF Matches(coll, id) = {} THEN coll
    ELSE LET i == First(Matches(coll, id))
         IN  SubSeq(coll, 1, i - 1) \o SubSeq(coll, i + 1, Len(coll))

\* a count that reports a deletion whether or not a record matched
DeletedCount_Always(coll, id) == 1

\* result.deleted_count
DeletedCount(coll, id) == IF Matches(coll, id) = {} THEN 0 ELSE 1

(***************************************************************************)
(* The query of get_coupons: store-level filters, then the search.         *)
(***************************************************************************)
\* to_list(1000)
ListCap == 1000

UpperChars ==
    <<"A", "B", "C", "D", "E", "F", "G", "H", "I", "J", "K", "L", "M",
      "N", "O", "P", "Q", "R", "S", "T", "U", "V", "W", "X", "Y", "Z">>
LowerChars ==
    <<"a", "b", "c", "d", "e", "f", "g", "h", "i", "j", "k", "l", "m",
      "n", "o", "p", "q", "r", "s", "t", "u", "v", "w", "x", "y", "z">>

\* str.lower()
LowerChar(c) ==
    IF \E i \in 1..Len(UpperChars) : UpperChars[i] = c
    THEN LowerChars[CHOOSE i \in 1..Len(UpperChars) : UpperChars[i] = c]
    ELSE c
Lower(s) == [i \in 1..Len(s) |-> LowerChar(s[i])]

\* sub in s
Contains(s, sub) ==
    \E i \in 0..(Len(s) - Len(sub)) : SubSeq(s, i + 1, i + Len(sub)) = sub

\* the truth value of an Optional[str]: None and "" are false
Truthy(o) == o # None /\ The(o) # <<>>

\* query = {}; if category: ...; if featured is not None: ...
BuildQuery(category, featured) ==
    [k \in (IF Truthy(category) THEN {"category"} ELSE {})
            \cup (IF featured # None THEN {"featured"} ELSE {}) |->
        IF k = "category" THEN category ELSE featured]

\* db.coupons.find(query, {"_id": 0}): the documents equal to the query on its keys
RECURSIVE Find(_, _)
Find(coll, query) ==
    IF Len(coll) = 0 THEN <<>>
    ELSE (IF \A k \in DOMAIN query : Head(coll)[k] = query[k] THEN <<Head(coll)>> ELSE <<>>)
         \o Find(Tail(coll), query)

\* cursor.to_list(n)
ToList(docs, n) == SubSeq(docs, 1, IF Len(docs) < n THEN Len(docs) ELSE n)

\* c.get(key, '')
GetOr(c, key) == IF key \in DOMAIN c /\ c[key] # None THEN The(c[key]) ELSE <<>>

\* the search of get_coupons on one coupon
SearchHit(c, search_lower) ==
    \/ Contains(Lower(GetOr(c, "store_name")), search_lower)
    \/ Contains(Lower(GetOr(c, "title")), search_lower)
    \/ Contains(Lower(GetOr(c, "category")), search_lower)

\* [c for c in coupons if ...]
RECURSIVE SearchFilter(_, _)
SearchFilter(docs, search_lower) ==
    IF Len(docs) = 0 THEN <<>>
    ELSE (IF SearchHit(Head(docs), search_lower) THEN <<Head(docs)>> ELSE <<>>)
         \o SearchFilter(Tail(docs), search_lower)

\* get_coupons(category, search, featured) on the collection `coll`
ListCoupons(coll, category, search, featured) ==
    LET found == ToList(Find(coll, BuildQuery(category, featured)), ListCap)
        parsed == [i \in 1..Len(found) |-> FromDoc(found[i])]
    IN  IF Truthy(search) THEN SearchFilter(parsed, Lower(The(search))) ELSE parsed

(***************************************************************************)
(* base64.b64encode and the data URL of upload_logo.                       *)
(***************************************************************************)
B64Chars ==
    <<"A", "B", "C", "D", "E", "F", "G", "H", "I", "J", "K", "L", "M", "N", "O", "P",
      "Q", "R", "S", "T", "U", "V", "W", "X", "Y", "Z", "a", "b", "c", "d", "e", "f",
      "g", "h", "i", "j", "k", "l", "m", "n", "o", "p", "q", "r", "s", "t", "u", "v",
      "w", "x", "y", "z", "0", "1", "2", "3", "4", "5", "6", "7", "8", "9", "+", "/">>

RECURSIVE B64Encode(_)
B64Encode(b) ==
    IF Len(b) = 0 THEN <<>>
    ELSE IF Len(b) = 1
    THEN <<B64Chars[(b[1] \div 4) + 1], B64Chars[((b[1] % 4) * 16) + 1], "=", "=">>
    ELSE IF Len(b) = 2
    THEN <<B64Chars[(b[1] \div 4) + 1], B64Chars[((b[1] % 4) * 16) + (b[2] \div 16) + 1],
           B64Chars[((b[2] % 16) * 4) + 1], "=">>
    ELSE <<B64Chars[(b[1] \div 4) + 1], B64Chars[((b[1] % 4) * 16) + (b[2] \div 16) + 1],
           B64Chars[((b[2] % 16) * 4) + (b[3] \div 64) + 1], B64Chars[(b[3] % 64) + 1]>>
         \o B64Encode(SubSeq(b, 4, Len(b)))

\* f"data:{file.content_type};base64,{base64_encoded}"
DataUrl(content_type, contents) ==
    <<"d", "a", "t", "a", ":">> \o content_type
    \o <<";", "b", "a", "s", "e", "6", "4", ",">> \o B64Encode(contents)

\* a check that only rejects a missing or empty content type
BadContentType_FalsyOnly(content_type) ==
    IF content_type = None THEN TRUE ELSE The(content_type) = <<>>

\* not file.content_type or not file.content_type.startswith('image/')
BadContentType(content_type) ==
    IF content_type = None THEN TRUE
    ELSE The(content_type) = <<>> \/ ~StartsWith(The(content_type), IMAGE)

(***************************************************************************)
(* Requests in flight.  req[p] is the request of handler slot p: its       *)
(* arguments, where it stands (pc), its local variables and, once          *)
(* pc = "done", its response.                                              *)
(***************************************************************************)
NoArgs ==
    [authorization |-> None, coupon_id |-> None, body |-> EmptyDict,
     username |-> None, password |-> None, content_type |-> None, contents |-> None,
     category |-> None, search |-> None, featured |-> None]

Idle ==
    [op |-> "idle", pc |-> "idle", args |-> NoArgs, status |-> 0, detail |-> "",
     token |-> None, ret |-> None, existing |-> None, update_data |-> EmptyDict,
     doc |-> None, wrote |-> FALSE]

\* a slot takes a new request when it handles none
Free(p) == req[p].pc = "idle"

Begin(op, args) == [Idle EXCEPT !.op = op, !.args = args]

\* verify_admin_token(authorization) returned `token`
Authorized(r, token) == [r EXCEPT !.token = token]

\* the response: a returned value, or an HTTPException
Return(r, value) == [r EXCEPT !.pc = "done", !.status = 200, !.ret = Some(value)]
Raise(r, status, detail) == [r EXCEPT !.pc = "done", !.status = status, !.detail = detail]

Init ==
    /\ admin_sessions = EmptyDict
    /\ coupons = <<>>
    /\ used_ids = {}
    /\ now = 0
    /\ req = [p \in {1} |-> Idle]

\* the same process, handling two requests at a time
InitConc ==
    /\ admin_sessions = EmptyDict
    /\ coupons = <<>>
    /\ used_ids = {}
    /\ now = 0
    /\ req = [p \in {1, 2} |-> Idle]

\* the response is sent and the slot is free again
Deliver(p) ==
    /\ req[p].pc = "done"
    /\ req' = [req EXCEPT ![p] = Idle]
    /\ UNCHANGED <<admin_sessions, coupons, used_ids, now>>

\* time passes
Tick ==
    /\ now < MaxClock
    /\ now' = now + 1
    /\ UNCHANGED <<admin_sessions, coupons, used_ids, req>>

\* a login whose failure message names the field that was wrong
AdminLogin_Reveal(p, username, password, pool) ==
    /\ Free(p)
    /\ LET r == Begin("login", [NoArgs EXCEPT !.username = Some(username),
                                              !.password = Some(password)])
       IN  IF CredentialsOk(username, password)
           THEN /\ Cardinality(DOMAIN admin_sessions) < MaxLogins
                /\ \E token \in NewTokens(admin_sessions, pool) :
                      /\ admin_sessions' = RegisterSession(admin_sessions, token, now)
                      /\ req' = [req EXCEPT ![p] =
                                   Return(r, [token |-> token, message |-> "Login successful"])]
           ELSE /\ req' = [req EXCEPT ![p] =
                             Raise(r, 401, IF username # ADMIN_USERNAME
                                           THEN "Unknown user" ELSE "Wrong password")]
                /\ UNCHANGED admin_sessions
    /\ UNCHANGED <<coupons, used_ids, now>>

\* POST /admin/login
AdminLogin(p, username, password, pool) ==
    /\ Free(p)
    /\ LET r == Begin("login", [NoArgs EXCEPT !.username = Some(username),
                                              !.password = Some(password)])
       IN  IF CredentialsOk(username, password)
           THEN /\ Cardinality(DOMAIN admin_sessions) < MaxLogins
                /\ \E token \in NewTokens(admin_sessions, pool) :
                      /\ admin_sessions' = RegisterSession(admin_sessions, token, now)
                      /\ req' = [req EXCEPT ![p] =
                                   Return(r, [token |-> token, message |-> "Login successful"])]
           ELSE /\ req' = [req EXCEPT ![p] = Raise(r, 401, "Invalid credentials")]
                /\ UNCHANGED admin_sessions
    /\ UNCHANGED <<coupons, used_ids, now>>

\* POST /admin/coupons, up to the await of insert_one
CreateCoupon(p, authorization, body, idpool) ==
    /\ Free(p)
    /\ LET auth == VerifyAdminToken(authorization, admin_sessions)
           r == Authorized(Begin("create", [NoArgs EXCEPT !.authorization = authorization,
                                                          !.body = body]), auth.token)
       IN  IF ~auth.ok
           THEN /\ req' = [req EXCEPT ![p] = Raise(r, auth.status, auth.detail)]
                /\ UNCHANGED used_ids
           ELSE /\ Cardinality(used_ids) < MaxCoupons
                /\ \E id \in NewIds(used_ids, idpool) :
                      LET coupon_obj == NewCoupon(ParseCouponCreate(body), id, now)
                      IN  /\ used_ids' = used_ids \cup {id}
                          /\ req' = [req EXCEPT ![p] =
                                       [r EXCEPT !.pc = "insert", !.ret = Some(coupon_obj),
                                                 !.doc = Some(ToDoc(coupon_obj))]]
    /\ UNCHANGED <<admin_sessions, coupons, now>>

\* the store executes insert_one; the handler returns coupon_obj
CreateInsert(p) ==
    /\ req[p].op = "create" /\ req[p].pc = "insert"
    /\ coupons' = InsertOne(coupons, The(req[p].doc))
    /\ req' = [req EXCEPT ![p] = Return(@, The(@.ret))]
    /\ UNCHANGED <<admin_sessions, used_ids, now>>

\* PUT /admin/coupons/{coupon_id}, up to the await of the first find_one
UpdateCoupon(p, authorization, coupon_id, body) ==
    /\ Free(p)
    /\ LET auth == VerifyAdminToken(authorization, admin_sessions)
           r == Authorized(Begin("update", [NoArgs EXCEPT !.authorization = authorization,
                                                          !.coupon_id = Some(coupon_id),
                                                          !.body = body]), auth.token)
       IN  req' = [req EXCEPT ![p] =
                     IF ~auth.ok THEN Raise(r, auth.status, auth.detail)
                     ELSE [r EXCEPT !.pc = "find"]]
    /\ UNCHANGED <<admin_sessions, coupons, used_ids, now>>

\* the store executes find_one; the handler goes on to the next await
UpdateFind(p) ==
    /\ req[p].op = "update" /\ req[p].pc = "find"
    /\ LET existing == FindOne(coupons, The(req[p].args.coupon_id))
           update_data == UpdateData(ParseCouponUpdate(req[p].args.body))
       IN  req' = [req EXCEPT ![p] =
                     IF existing = None THEN Raise(@, 404, "Coupon not found")
                     ELSE [@ EXCEPT !.existing = existing, !.update_data = update_data,
                                    !.pc = IF DOMAIN update_data # {} THEN "write" ELSE "reread"]]
    /\ UNCHANGED <<admin_sessions, coupons, used_ids, now>>

\* the store executes update_one
UpdateWrite(p) ==
    /\ req[p].op = "update" /\ req[p].pc = "write"
    /\ coupons' = UpdateOne(coupons, The(req[p].args.coupon_id), req[p].update_data)
    /\ req' = [req EXCEPT ![p] = [@ EXCEPT !.pc = "reread", !.wrote = TRUE]]
    /\ UNCHANGED <<admin_sessions, used_ids, now>>

\* the store executes the second find_one; the handler returns its result
\* (updated_coupon.get on None raises AttributeError: a 500 response)
UpdateReread(p) ==
    /\ req[p].op = "update" /\ req[p].pc = "reread"
    /\ LET updated_coupon == FindOne(coupons, The(req[p].args.coupon_id))
       IN  req' = [req EXCEPT ![p] =
                     IF updated_coupon = None THEN Raise(@, 500, "Internal Server Error")
                     ELSE Return(@, FromDoc(The(updated_coupon)))]
    /\ UNCHANGED <<admin_sessions, coupons, used_ids, now>>

\* DELETE /admin/coupons/{coupon_id}, up to the await of delete_one
DeleteCoupon(p, authorization, coupon_id) ==
    /\ Free(p)
    /\ LET auth == VerifyAdminToken(authorization, admin_sessions)
           r == Authorized(Begin("delete", [NoArgs EXCEPT !.authorization = authorization,
                                                          !.coupon_id = Some(coupon_id)]),
                           auth.token)
       IN  req' = [req EXCEPT ![p] =
                     IF ~auth.ok THEN Raise(r, auth.status, auth.detail)
                     ELSE [r EXCEPT !.pc = "delete"]]
    /\ UNCHANGED <<admin_sessions, coupons, used_ids, now>>

\* the store executes delete_one; the handler answers by deleted_count
DeleteExec(p) ==
    /\ req[p].op = "delete" /\ req[p].pc = "delete"
    /\ LET coupon_id == The(req[p].args.coupon_id)
       IN  /\ coupons' = DeleteOne(coupons, coupon_id)
           /\ req' = [req EXCEPT ![p] =
                        IF DeletedCount(coupons, coupon_id) = 0
                        THEN Raise(@, 404, "Coupon not found")
                        ELSE Return(@, [message |-> "Coupon deleted successfully"])]
    /\ UNCHANGED <<admin_sessions, used_ids, now>>

\* GET /coupons/{coupon_id}
GetCoupon(p, coupon_id) ==
    /\ Free(p)
    /\ LET r == Begin("get", [NoArgs EXCEPT !.coupon_id = Some(coupon_id)])
           coupon == FindOne(coupons, coupon_id)
       IN  req' = [req EXCEPT ![p] =
                     IF coupon = None THEN Raise(r, 404, "Coupon not found")
                     ELSE Return(r, FromDoc(The(coupon)))]
    /\ UNCHANGED <<admin_sessions, coupons, used_ids, now>>

\* GET /coupons
GetCoupons(p, category, search, featured) ==
    /\ Free(p)
    /\ LET r == Begin("list", [NoArgs EXCEPT !.category = category, !.search = search,
                                             !.featured = featured])
       IN  req' = [req EXCEPT ![p] = Return(r, ListCoupons(coupons, category, search, featured))]
    /\ UNCHANGED <<admin_sessions, coupons, used_ids, now>>

\* POST /admin/upload-logo
UploadLogo(p, authorization, content_type, contents) ==
    /\ Free(p)
    /\ LET auth == VerifyAdminToken(authorization, admin_sessions)
           r == Authorized(Begin("upload", [NoArgs EXCEPT !.authorization = authorization,
                                                          !.content_type = content_type,
                                                          !.contents = Some(contents)]),
                           auth.token)
       IN  req' = [req EXCEPT ![p] =
                     IF ~auth.ok THEN Raise(r, auth.status, auth.detail)
                     ELSE IF BadContentType(content_type)
                     THEN Raise(r, 400, "File must be an image")
                     ELSE Return(r, [url |-> DataUrl(The(content_type), contents)])]
    /\ UNCHANGED <<admin_sessions, coupons, used_ids, now>>

\* string literals of the inputs
TOK_A == <<"a">>
TOK_B == <<"b">>
TOK_AA == <<"a", "a">>
TOKEN_SCHEME == <<"T", "o", "k", "e", "n", " ">>
USERNAME_UPPER == <<"R", "a", "j", "2", "1", "5", "1">>
PASSWORD_UPPER == <<"P", "a", "s", "s", "r", "a", "j", "2", "1", "5", "1">>
STR_NIKE == <<"N", "i", "k", "e">>
STR_20OFF == <<"2", "0", "%", " ", "o", "f", "f">>
STR_NIKE20 == <<"N", "I", "K", "E", "2", "0">>
STR_FASHION == <<"F", "a", "s", "h", "i", "o", "n">>
STR_DATE == <<"2", "0", "2", "5", "-", "1", "2", "-", "3", "1">>
STR_KFC == <<"k", "f", "c">>
STR_FOOD == <<"F", "o", "o", "d">>
STR_URL == <<"u">>
STR_URL2 == <<"v">>
STR_TEXT == <<"t", "e", "x", "t", "/", "p", "l", "a", "i", "n">>
STR_FOOD_LOWER == <<"f", "o", "o", "d">>
STR_NIKE_UPPER == <<"N", "I", "K", "E">>
STR_FASTFOOD == <<"F", "a", "s", "t", "F", "O", "O", "D">>

(***************************************************************************)
(* The inputs the requests are drawn from.                                 *)
(***************************************************************************)
\* values secrets.token_urlsafe returns: no space occurs in them
TokenPool == {TOK_A, TOK_B, TOK_AA}
OneToken == {TOK_A}
TwoTokens == {TOK_A, TOK_B}

\* headers: None, and every concatenation of at most MaxParts of these parts
HeaderParts == {BEARER, TOKEN_SCHEME, TOK_A, TOK_B, BEARER \o TOK_A, BEARER \o TOK_B}

RECURSIVE Concats(_)
Concats(n) ==
    IF n = 0 THEN {<<>>}
    ELSE Concats(n - 1) \cup {h \o q : h \in Concats(n - 1), q \in HeaderParts}

AllHeaders == {None} \cup {Some(h) : h \in Concats(MaxParts)}
FewHeaders == {None, Some(BEARER \o TOK_A)}
OneHeader == {Some(BEARER \o TOK_A)}

AllCredentials ==
    {ADMIN_USERNAME, USERNAME_UPPER, ADMIN_PASSWORD}
    \X {ADMIN_PASSWORD, PASSWORD_UPPER, ADMIN_USERNAME}
FewCredentials == {<<ADMIN_USERNAME, ADMIN_PASSWORD>>, <<ADMIN_USERNAME, PASSWORD_UPPER>>}

\* the coupon of the scenario of the specification: no logo_url, no featured
NikeInput ==
    [store_name |-> Some(STR_NIKE), title |-> Some(STR_20OFF), code |-> Some(STR_NIKE20),
     description |-> Some(<<"d">>), category |-> Some(STR_FASHION),
     expiry_date |-> Some(STR_DATE)]

\* the same with an explicit null logo_url and an explicit featured = false
NikeNullInput ==
    [store_name |-> Some(STR_NIKE), title |-> Some(STR_20OFF), code |-> Some(STR_NIKE20),
     description |-> Some(<<"d">>), category |-> Some(STR_FASHION),
     expiry_date |-> Some(STR_DATE), logo_url |-> None, featured |-> Some(FALSE)]

\* a featured coupon with a logo and empty strings
KfcInput ==
    [store_name |-> Some(STR_KFC), logo_url |-> Some(STR_URL), title |-> Some(<<>>),
     code |-> Some(<<"K">>), description |-> Some(<<>>), category |-> Some(STR_FOOD),
     expiry_date |-> Some(<<>>), featured |-> Some(TRUE)]

\* a coupon whose title alone holds "food", in another case, and whose
\* category is empty
TitleInput ==
    [store_name |-> Some(STR_KFC), title |-> Some(STR_FASTFOOD), code |-> Some(<<"K">>),
     description |-> Some(<<>>), category |-> Some(<<>>), expiry_date |-> Some(<<>>),
     featured |-> Some(FALSE)]

AllCoupons == {NikeInput, NikeNullInput, KfcInput}
ListedCoupons == {NikeInput, KfcInput, TitleInput}
FewCoupons == {KfcInput}

\* update bodies: a field is absent, null (None) or set to a value
AllUpdates ==
    { EmptyDict,
      [featured |-> Some(FALSE), title |-> Some(<<>>)],
      [logo_url |-> None],
      [f \in UpdateFields |-> None],
      [id |-> Some("id9"), created_at |-> Some(STR_DATE), featured |-> Some(TRUE)],
      [logo_url |-> Some(STR_URL2), category |-> Some(STR_FOOD)] }
FewUpdates == {EmptyDict, [featured |-> Some(FALSE)]}
OneUpdate == {[featured |-> Some(FALSE)]}

IdPool == <<"id1", "id2", "id3", "id4">>
OneId == <<"id1">>
AllIds == {"id1", "id2", "id9"}
FewIds == {"id1", "id9"}
OneIdArg == {"id1"}

\* queries of get_coupons: each parameter absent, empty or set
Categories == {None, Some(<<>>), Some(STR_FOOD), Some(STR_FASHION)}
Searches == {None, Some(<<>>), Some(STR_FOOD_LOWER), Some(STR_NIKE_UPPER), Some(<<"f">>)}
Featureds == {None, Some(TRUE), Some(FALSE)}
OneCategory == {Some(STR_FOOD)}
OneSearch == {Some(<<"f">>)}
OneFeatured == {None}

ContentTypes == {None, Some(<<>>), Some(IMAGE \o <<"p", "n", "g">>), Some(STR_TEXT)}
Payloads == {<<>>, <<77>>, <<77, 97>>, <<77, 97, 110, 255>>}
OneType == {Some(STR_TEXT)}
OnePayload == {<<77>>}

(***************************************************************************)
(* The specifications: the same handlers over different inputs.            *)
(***************************************************************************)
\* one request at a time, over all coupon inputs
Next ==
    \/ Tick
    \/ \E p \in DOMAIN req : Deliver(p)
    \/ \E p \in DOMAIN req : CreateInsert(p)
    \/ \E p \in DOMAIN req : UpdateFind(p)
    \/ \E p \in DOMAIN req : UpdateWrite(p)
    \/ \E p \in DOMAIN req : UpdateReread(p)
    \/ \E p \in DOMAIN req : DeleteExec(p)
    \/ \E p \in DOMAIN req, c \in FewCredentials : AdminLogin(p, c[1], c[2], OneToken)
    \/ \E p \in DOMAIN req, h \in FewHeaders, body \in AllCoupons :
          CreateCoupon(p, h, body, IdPool)
    \/ \E p \in DOMAIN req, h \in FewHeaders, id \in AllIds, body \in AllUpdates :
          UpdateCoupon(p, h, id, body)
    \/ \E p \in DOMAIN req, h \in FewHeaders, id \in AllIds : DeleteCoupon(p, h, id)
    \/ \E p \in DOMAIN req, id \in AllIds : GetCoupon(p, id)
    \/ \E p \in DOMAIN req, c \in OneCategory, s \in OneSearch, f \in OneFeatured :
          GetCoupons(p, c, s, f)
    \/ \E p \in DOMAIN req, h \in FewHeaders, t \in ContentTypes, b \in Payloads :
          UploadLogo(p, h, t, b)

Spec == Init /\ [][Next]_vars

\* one request at a time, over all headers and credentials
NextAuth ==
    \/ \E p \in DOMAIN req : Deliver(p)
    \/ \E p \in DOMAIN req : CreateInsert(p)
    \/ \E p \in DOMAIN req : UpdateFind(p)
    \/ \E p \in DOMAIN req : UpdateWrite(p)
    \/ \E p \in DOMAIN req : UpdateReread(p)
    \/ \E p \in DOMAIN req : DeleteExec(p)
    \/ \E p \in DOMAIN req, c \in AllCredentials : AdminLogin(p, c[1], c[2], TokenPool)
    \/ \E p \in DOMAIN req, h \in AllHeaders, body \in FewCoupons :
          CreateCoupon(p, h, body, OneId)
    \/ \E p \in DOMAIN req, h \in AllHeaders, id \in FewIds, body \in OneUpdate :
          UpdateCoupon(p, h, id, body)
    \/ \E p \in DOMAIN req, h \in AllHeaders, id \in FewIds : DeleteCoupon(p, h, id)
    \/ \E p \in DOMAIN req, id \in FewIds : GetCoupon(p, id)
    \/ \E p \in DOMAIN req, c \in OneCategory, s \in OneSearch, f \in OneFeatured :
          GetCoupons(p, c, s, f)
    \/ \E p \in DOMAIN req, h \in AllHeaders, t \in ContentTypes, b \in OnePayload :
          UploadLogo(p, h, t, b)

SpecAuth == Init /\ [][NextAuth]_vars

\* two requests at a time
NextConc ==
    \/ Tick
    \/ \E p \in DOMAIN req : Deliver(p)
    \/ \E p \in DOMAIN req : CreateInsert(p)
    \/ \E p \in DOMAIN req : UpdateFind(p)
    \/ \E p \in DOMAIN req : UpdateWrite(p)
    \/ \E p \in DOMAIN req : UpdateReread(p)
    \/ \E p \in DOMAIN req : DeleteExec(p)
    \/ \E p \in DOMAIN req, c \in FewCredentials : AdminLogin(p, c[1], c[2], TwoTokens)
    \/ \E p \in DOMAIN req, h \in OneHeader, body \in FewCoupons :
          CreateCoupon(p, h, body, OneId)
    \/ \E p \in DOMAIN req, h \in OneHeader, id \in OneIdArg, body \in FewUpdates :
          UpdateCoupon(p, h, id, body)
    \/ \E p \in DOMAIN req, h \in OneHeader, id \in OneIdArg : DeleteCoupon(p, h, id)
    \/ \E p \in DOMAIN req, id \in OneIdArg : GetCoupon(p, id)
    \/ \E p \in DOMAIN req, c \in OneCategory, s \in OneSearch, f \in OneFeatured :
          GetCoupons(p, c, s, f)
    \/ \E p \in DOMAIN req, h \in OneHeader, t \in OneType, b \in OnePayload :
          UploadLogo(p, h, t, b)

SpecConc == InitConc /\ [][NextConc]_vars

\* one request at a time, over all queries of get_coupons
NextList ==
    \/ Tick
    \/ \E p \in DOMAIN req : Deliver(p)
    \/ \E p \in DOMAIN req : CreateInsert(p)
    \/ \E p \in DOMAIN req : UpdateFind(p)
    \/ \E p \in DOMAIN req : UpdateWrite(p)
    \/ \E p \in DOMAIN req : UpdateReread(p)
    \/ \E p \in DOMAIN req : DeleteExec(p)
    \/ \E p \in DOMAIN req, c \in FewCredentials : AdminLogin(p, c[1], c[2], OneToken)
    \/ \E p \in DOMAIN req, h \in OneHeader, body \in ListedCoupons :
          CreateCoupon(p, h, body, IdPool)
    \/ \E p \in DOMAIN req, h \in OneHeader, id \in OneIdArg, body \in OneUpdate :
          UpdateCoupon(p, h, id, body)
    \/ \E p \in DOMAIN req, h \in OneHeader, id \in OneIdArg : DeleteCoupon(p, h, id)
    \/ \E p \in DOMAIN req, c \in Categories, s \in Searches, f \in Featureds :
          GetCoupons(p, c, s, f)

SpecList == Init /\ [][NextList]_vars

(***************************************************************************)
(* Properties.                                                             *)
(***************************************************************************)
Mutating == {"create", "update", "delete", "upload"}

\* slot p takes a new request in this step
Begins(p) == Free(p) /\ req'[p] # req[p]

\* the header without its first Len("Bearer ") characters
Remainder(h) == SubSeq(h, Len(BEARER) + 1, Len(h))

\* the header is missing, has the wrong scheme, or the token after the
\* scheme is not a key of the registry
Unauthorized(authorization, sessions) ==
    \/ authorization = None
    \/ /\ authorization # None
       /\ \/ ~StartsWith(The(authorization), BEARER)
          \/ Remainder(The(authorization)) \notin DOMAIN sessions

\* C1: a mutating admin request whose Authorization header is missing, has the
\* wrong scheme or carries a token that is not in the session registry ends
\* at once with 401, and the coupon collection is what it was before.
C1_AuthBeforeAnyStep ==
    [][\A p \in DOMAIN req :
          (/\ Begins(p)
           /\ req'[p].op \in Mutating
           /\ Unauthorized(req'[p].args.authorization, admin_sessions))
          => /\ req'[p].pc = "done"
             /\ req'[p].status = 401
             /\ coupons' = coupons]_vars

\* C2: for a header that starts with "Bearer ", authorize succeeds and returns
\* the remainder of the header exactly when that remainder is a key of the
\* session registry, and fails with 401 "Invalid or expired token" otherwise.
C2_AuthorizeRemainder ==
    \A p \in DOMAIN req :
       (/\ req[p].op \in Mutating
        /\ req[p].args.authorization # None
        /\ StartsWith(The(req[p].args.authorization), BEARER))
       => LET rem == Remainder(The(req[p].args.authorization))
          IN  IF rem \in DOMAIN admin_sessions
              THEN req[p].token = Some(rem) /\ req[p].status # 401
              ELSE /\ req[p].pc = "done" /\ req[p].status = 401
                   /\ req[p].detail = "Invalid or expired token"
                   /\ req[p].token = None

\* the header is absent, empty, or does not start with "Bearer "
Malformed(authorization) ==
    \/ authorization = None
    \/ authorization # None /\ ~StartsWith(The(authorization), BEARER)

\* C3: authorize fails with 401 "Not authenticated" for every header that is
\* absent, empty or does not start with "Bearer ", whatever the registry holds.
C3_WrongSchemeFails ==
    \A p \in DOMAIN req :
       (req[p].op \in Mutating /\ Malformed(req[p].args.authorization))
       => /\ req[p].pc = "done" /\ req[p].status = 401
          /\ req[p].detail = "Not authenticated"
          /\ req[p].token = None /\ req[p].ret = None

\* "Token <t>" was refused although <t> is a registered token
C3_Witness ==
    \E p \in DOMAIN req, t \in DOMAIN admin_sessions :
       /\ req[p].op \in Mutating
       /\ req[p].args.authorization = Some(TOKEN_SCHEME \o t)
       /\ req[p].status = 401

\* C4: login succeeds only when username and password both equal the
\* configured ones; it then adds exactly one new entry to the registry and
\* returns its token.  Every other pair fails with 401 "Invalid credentials"
\* and leaves the registry unchanged.
C4_LoginExactMatch ==
    [][\A p \in DOMAIN req :
          (Begins(p) /\ req'[p].op = "login")
          => IF /\ The(req'[p].args.username) = ADMIN_USERNAME
                /\ The(req'[p].args.password) = ADMIN_PASSWORD
             THEN /\ req'[p].pc = "done" /\ req'[p].status = 200
                  /\ \E t \in DOMAIN admin_sessions' :
                        /\ t \notin DOMAIN admin_sessions
                        /\ DOMAIN admin_sessions' = DOMAIN admin_sessions \cup {t}
                        /\ The(req'[p].ret).token = t
                  /\ \A k \in DOMAIN admin_sessions : admin_sessions'[k] = admin_sessions[k]
             ELSE /\ req'[p].pc = "done" /\ req'[p].status = 401
                  /\ req'[p].detail = "Invalid credentials"
                  /\ req'[p].ret = None
                  /\ admin_sessions' = admin_sessions]_vars

\* a login was answered with a token that the registry holds
C4_Witness ==
    \E p \in DOMAIN req :
       /\ req[p].op = "login" /\ req[p].status = 200
       /\ The(req[p].ret).token \in DOMAIN admin_sessions

\* C5: the token of a second successful login differs from every token issued
\* before, and after it authorize succeeds for "Bearer <t>" for the earlier
\* tokens as for the new one.
C5_TwoLoginsBothValid ==
    [][\A p \in DOMAIN req :
          (Begins(p) /\ req'[p].op = "login" /\ req'[p].status = 200)
          => LET t2 == The(req'[p].ret).token
             IN  /\ t2 \notin DOMAIN admin_sessions
                 /\ \A t \in DOMAIN admin_sessions \cup {t2} :
                       LET auth == VerifyAdminToken(Some(BEARER \o t), admin_sessions')
                       IN  auth.ok /\ auth.token = Some(t)]_vars

\* two sessions are registered and a request presenting one of them passed
C5_Witness ==
    /\ Cardinality(DOMAIN admin_sessions) = 2
    /\ \E p \in DOMAIN req :
          /\ req[p].op \in Mutating
          /\ req[p].token # None
          /\ The(req[p].token) \in DOMAIN admin_sessions
          /\ req[p].status = 200

\* C6: no step removes or changes an entry of the session registry, and a
\* request that presents "Bearer <t>" for a registered t passes authorize,
\* whatever other requests are in flight.
C6_SessionsPersist ==
    [][/\ \A t \in DOMAIN admin_sessions :
             t \in DOMAIN admin_sessions' /\ admin_sessions'[t] = admin_sessions[t]
       /\ \A p \in DOMAIN req :
             (/\ Begins(p) /\ req'[p].op \in Mutating
              /\ \E t \in DOMAIN admin_sessions :
                    req'[p].args.authorization = Some(BEARER \o t))
             => req'[p].status # 401 /\ req'[p].token # None]_vars

\* with another request in flight, a request of the first session passed
\* after a second session was registered
C6_Witness ==
    /\ Cardinality(DOMAIN admin_sessions) = 2
    /\ \E p, q \in DOMAIN req :
          /\ p # q
          /\ req[q].pc \notin {"idle", "done"}
          /\ req[p].op \in Mutating /\ req[p].pc = "done" /\ req[p].status = 200
          /\ req[p].token = Some(TOK_A)

\* the fields a body provides with a value of the coupon's data model: any
\* non-null value, and null for logo_url, the one optional field
Provided(body) ==
    {f \in DOMAIN body \cap UpdateFields : body[f] # None \/ f = "logo_url"}

\* C7: an authorized update on an existing id sets every field the body
\* provides to the provided value and leaves every omitted field as it was,
\* in the store and in the record it returns.
C7_UpdateSetsProvided ==
    \A p \in DOMAIN req :
       (req[p].op = "update" /\ req[p].pc = "done" /\ req[p].status = 200)
       => LET body == req[p].args.body
              before == The(req[p].existing)
              stored == The(FindOne(coupons, The(req[p].args.coupon_id)))
              returned == The(req[p].ret)
          IN  /\ \A f \in Provided(body) :
                    stored[f] = body[f] /\ returned[f] = body[f]
              /\ \A f \in UpdateFields \ DOMAIN body :
                    stored[f] = before[f] /\ returned[f] = before[f]

\* C8: an authorized update with an empty body on an existing id never
\* writes to the store, leaves the collection as it was and returns the
\* current record with status 200.
C8_EmptyUpdateNoWrite ==
    [][\A p \in DOMAIN req :
          (/\ req[p].op = "update" /\ ~Free(p)
           /\ DOMAIN req[p].args.body = {}
           /\ req'[p] # req[p])
          => LET current == FindOne(coupons, The(req[p].args.coupon_id))
             IN  /\ coupons' = coupons
                 /\ req'[p].pc # "write" /\ ~req'[p].wrote
                 /\ (req'[p].pc = "done" /\ current # None)
                    => /\ req'[p].status = 200
                       /\ req'[p].ret = Some(FromDoc(The(current)))
                       /\ req'[p].existing = current]_vars

\* an update with an empty body returned a record of a collection of two
C8_Witness ==
    \E p \in DOMAIN req :
       /\ req[p].op = "update" /\ req[p].pc = "done" /\ req[p].status = 200
       /\ DOMAIN req[p].args.body = {}
       /\ Len(coupons) = 2

InputField(c, f) ==
    IF f \in DOMAIN c THEN c[f] ELSE IF f = "featured" THEN Some(FALSE) ELSE None

\* C10: when an authorized create returns, the store holds a record of the
\* returned id whose fields are those of the input (featured false when
\* omitted) and whose created_at reads back as the one returned; and a get on
\* an id returns the stored record of that id, field by field.
C10_CreateThenGet ==
    [][\A p \in DOMAIN req :
          /\ (req[p].pc = "insert" /\ req'[p].pc = "done")
             => LET returned == The(req'[p].ret)
                    found == FindOne(coupons', The(returned["id"]))
                IN  /\ req'[p].status = 200
                    /\ found # None
                    /\ \A f \in UpdateFields :
                          /\ The(found)[f] = InputField(req'[p].args.body, f)
                          /\ returned[f] = InputField(req'[p].args.body, f)
                    /\ Some(FromIsoFormat(The(The(found)["created_at"])))
                         = returned["created_at"]
          /\ (Begins(p) /\ req'[p].op = "get")
             => LET found == FindOne(coupons, The(req'[p].args.coupon_id))
                IN  /\ coupons' = coupons
                    /\ IF found = None THEN req'[p].status = 404
                       ELSE /\ req'[p].status = 200
                            /\ \A f \in UpdateFields \cup {"id"} :
                                  The(req'[p].ret)[f] = The(found)[f]
                            /\ The(req'[p].ret)["created_at"]
                                 = Some(FromIsoFormat(The(The(found)["created_at"])))]_vars

\* a get returned a record with the fields of the scenario's coupon, which
\* omits logo_url and featured
C10_Witness ==
    \E p \in DOMAIN req :
       /\ req[p].op = "get" /\ req[p].status = 200
       /\ \A f \in UpdateFields : The(req[p].ret)[f] = InputField(NikeInput, f)
       /\ The(req[p].ret)["featured"] = Some(FALSE)
       /\ The(req[p].ret)["logo_url"] = None

\* every id a request can name
KnownIds == {IdPool[i] : i \in DOMAIN IdPool} \cup AllIds

\* the id was generated, no record has it and no insert of it is pending:
\* its record was deleted
Gone(id) ==
    /\ id \in used_ids
    /\ \A i \in 1..Len(coupons) : coupons[i]["id"] # Some(id)
    /\ \A p \in DOMAIN req :
          ~(req[p].pc = "insert" /\ The(req[p].doc)["id"] = Some(id))

\* C11: an authorized delete of an id that exists answers 200, removes the
\* one record with that id and leaves every other record as it was; from
\* then on no step brings a record with that id back, and every get of the
\* id answers 404.
C11_DeleteIsPermanent ==
    [][/\ \A p \in DOMAIN req :
             (/\ req[p].op = "delete" /\ req[p].pc = "delete" /\ req'[p] # req[p]
              /\ \E i \in 1..Len(coupons) : coupons[i]["id"] = req[p].args.coupon_id)
             => /\ req'[p].pc = "done" /\ req'[p].status = 200
                /\ Len(coupons') = Len(coupons) - 1
                /\ coupons' = SelectSeq(coupons,
                                        LAMBDA d : d["id"] # req[p].args.coupon_id)
                /\ Gone(The(req[p].args.coupon_id))'
       /\ \A id \in KnownIds :
             Gone(id)
             => /\ Gone(id)'
                /\ \A p \in DOMAIN req :
                      (Begins(p) /\ req'[p].op = "get" /\ req'[p].args.coupon_id = Some(id))
                      => /\ req'[p].pc = "done" /\ req'[p].status = 404
                         /\ req'[p].detail = "Coupon not found"]_vars

\* a get of a deleted id answered 404 while another coupon is still stored
C11_Witness ==
    \E p \in DOMAIN req :
       /\ req[p].op = "get" /\ req[p].pc = "done" /\ req[p].status = 404
       /\ Gone(The(req[p].args.coupon_id))
       /\ Len(coupons) >= 1

\* the stored coupons, as the API returns them
Stored == [i \in 1..Len(coupons) |-> FromDoc(coupons[i])]

\* the coupon passes the filters the query gives
PassesFilters(c, category, featured) ==
    /\ category # None => c["category"] = category
    /\ featured # None => c["featured"] = featured

\* one of store_name, title and category contains s, whatever the case
PassesSearch(c, s) ==
    \E f \in {"store_name", "title", "category"} :
       Contains(Lower(The(c[f])), Lower(s))

\* C12: a list request with a search term returns exactly the stored coupons
\* that pass the category and featured filters given with it and whose
\* store_name, title or category contains the term case-insensitively, in
\* stored order.
C12_SearchExact ==
    [][\A p \in DOMAIN req :
          (Begins(p) /\ req'[p].op = "list" /\ req'[p].args.search # None)
          => LET a == req'[p].args
             IN  /\ req'[p].pc = "done" /\ req'[p].status = 200
                 /\ The(req'[p].ret)
                      = SelectSeq(Stored, LAMBDA c :
                            /\ PassesFilters(c, a.category, a.featured)
                            /\ PassesSearch(c, The(a.search)))]_vars

\* C13: every coupon a list request returns has the category and the
\* featured flag the query gives, for every given value, featured = false
\* and the empty category included; without a search term every stored
\* coupon that has them is returned.
C13_FiltersExact ==
    [][\A p \in DOMAIN req :
          (Begins(p) /\ req'[p].op = "list")
          => LET a == req'[p].args
                 returned == The(req'[p].ret)
             IN  /\ req'[p].pc = "done" /\ req'[p].status = 200
                 /\ \A i \in 1..Len(returned) :
                       PassesFilters(returned[i], a.category, a.featured)
                 /\ a.search = None
                    => returned = SelectSeq(Stored, LAMBDA c :
                                     PassesFilters(c, a.category, a.featured))]_vars

\* the value of a base64 digit, and the bytes a base64 text stands for
B64Val(c) == (CHOOSE i \in 1..Len(B64Chars) : B64Chars[i] = c) - 1
RECURSIVE B64Decode(_)
B64Decode(s) ==
    IF Len(s) < 4 THEN <<>>
    ELSE LET first == (B64Val(s[1]) * 4) + (B64Val(s[2]) \div 16)
         IN  IF s[3] = "=" THEN <<first>>
             ELSE LET second == ((B64Val(s[2]) % 16) * 16) + (B64Val(s[3]) \div 4)
                  IN  IF s[4] = "=" THEN <<first, second>>
                      ELSE <<first, second, ((B64Val(s[3]) % 4) * 64) + B64Val(s[4])>>
                           \o B64Decode(SubSeq(s, 5, Len(s)))

\* C14: an authorized upload whose content type is absent or does not start
\* with "image/" answers 400 "File must be an image"; any other authorized
\* upload answers 200 with the url "data:<content-type>;base64,<data>",
\* where <data> is the base64 text of the whole payload; no upload changes
\* the coupon collection or the session registry.
C14_UploadDataUrl ==
    [][\A p \in DOMAIN req :
          (Begins(p) /\ req'[p].op = "upload")
          => LET a == req'[p].args
                 is_image == /\ a.content_type # None
                             /\ Len(The(a.content_type)) >= 6
                             /\ SubSeq(The(a.content_type), 1, 6)
                                  = <<"i", "m", "a", "g", "e", "/">>
                 prefix == <<"d", "a", "t", "a", ":">> \o The(a.content_type)
                           \o <<";", "b", "a", "s", "e", "6", "4", ",">>
             IN  /\ coupons' = coupons /\ admin_sessions' = admin_sessions
                 /\ req'[p].pc = "done"
                 /\ req'[p].status # 401
                    => IF ~is_image
                       THEN /\ req'[p].status = 400
                            /\ req'[p].detail = "File must be an image"
                            /\ req'[p].ret = None
                       ELSE LET url == The(req'[p].ret).url
                                data == SubSeq(url, Len(prefix) + 1, Len(url))
                            IN  /\ req'[p].status = 200
                                /\ DOMAIN The(req'[p].ret) = {"url"}
                                /\ StartsWith(url, prefix)
                                /\ Len(data) = 4 * ((Len(The(a.contents)) + 2) \div 3)
                                /\ B64Decode(data) = The(a.contents)]_vars

\* an image of four bytes, one more than a base64 group, was returned as a
\* data URL while a coupon is stored
C14_Witness ==
    \E p \in DOMAIN req :
       /\ req[p].op = "upload" /\ req[p].pc = "done" /\ req[p].status = 200
       /\ Len(The(req[p].args.contents)) = 4
       /\ Len(coupons) >= 1

\* no stored record has the id
Missing(coupon_id) == \A i \in 1..Len(coupons) : coupons[i]["id"] # coupon_id

\* C15: a get, an authorized update and an authorized delete of an id that
\* no record has each answer 404 "Coupon not found" and leave the coupon
\* collection as it was.
C15_MissingIdNotFound ==
    [][\A p \in DOMAIN req :
          LET NotFound == /\ req'[p].pc = "done" /\ req'[p].status = 404
                          /\ req'[p].detail = "Coupon not found"
                          /\ req'[p].ret = None
                          /\ coupons' = coupons
          IN  /\ (Begins(p) /\ req'[p].op = "get" /\ Missing(req'[p].args.coupon_id))
                 => NotFound
              /\ (/\ Begins(p) /\ req'[p].op \in {"update", "delete"}
                  /\ req'[p].status # 401 /\ Missing(req'[p].args.coupon_id))
                 => /\ req'[p].pc \in {"find", "delete"}
                    /\ coupons' = coupons
              /\ (/\ req[p].op \in {"update", "delete"} /\ req[p].pc \in {"find", "delete"}
                  /\ req'[p] # req[p] /\ Missing(req[p].args.coupon_id))
                 => NotFound]_vars

\* an authorized delete of an id no record has answered 404 while a coupon
\* is stored
C15_Witness ==
    \E p \in DOMAIN req :
       /\ req[p].op = "delete" /\ req[p].pc = "done" /\ req[p].status = 404
       /\ Missing(req[p].args.coupon_id)
       /\ Len(coupons) >= 1

\* the response to a login that failed, whatever was wrong
FailedLogin ==
    [Idle EXCEPT !.op = "login", !.pc = "done", !.status = 401,
                 !.detail = "Invalid credentials"]

\* C16: whichever of username and password is wrong, or both, a failing
\* login gets the one response FailedLogin, which differs between two
\* failing logins only in the request it echoes, and leaves the registry as
\* it was: two failing pairs are answered alike and end in the same registry.
C16_FailedLoginsAlike ==
    [][\A p \in DOMAIN req :
          (/\ Begins(p) /\ req'[p].op = "login"
           /\ \/ The(req'[p].args.username) # ADMIN_USERNAME
              \/ The(req'[p].args.password) # ADMIN_PASSWORD)
          => /\ [req'[p] EXCEPT !.args = NoArgs] = FailedLogin
             /\ admin_sessions' = admin_sessions]_vars

\* a login with the right username and a wrong password failed while a
\* session is registered
C16_Witness ==
    \E p \in DOMAIN req :
       /\ req[p].op = "login" /\ req[p].pc = "done" /\ req[p].status = 401
       /\ The(req[p].args.username) = ADMIN_USERNAME
       /\ The(req[p].args.password) # ADMIN_PASSWORD
       /\ DOMAIN admin_sessions # {}

\* C17: a failed login and a protected request that is not authorized are
\* answered with 401, and the message of a protected route's 401 is the one
\* a request without a header gets, whether the header was malformed or the
\* token is not registered: the response does not tell the two apart.
C17_GenericAuthFailure ==
    \A p \in DOMAIN req :
       /\ (req[p].op = "login" /\ req[p].pc = "done" /\ req[p].ret = None)
          => req[p].status = 401
       /\ (req[p].op \in Mutating /\ req[p].pc = "done" /\ req[p].token = None)
          => /\ req[p].status = 401
             /\ req[p].detail = VerifyAdminToken(None, admin_sessions).detail

\* C18: whatever steps of other requests come between its store
\* operations, an authorized update ends either with 200 and a record of
\* the requested id or with 404 "Coupon not found".
C18_UpdateTwoOutcomes ==
    \A p \in DOMAIN req :
       (req[p].op = "update" /\ req[p].pc = "done" /\ req[p].token # None)
       => \/ /\ req[p].status = 200
             /\ The(req[p].ret)["id"] = req[p].args.coupon_id
          \/ /\ req[p].status = 404
             /\ req[p].detail = "Coupon not found"

\* C19: a step that changes the coupon collection is a step of a create,
\* update or delete request whose header is "Bearer " followed by a token of
\* the registry, that is, a token some earlier successful login issued;
\* while no login has succeeded the collection does not change.
C19_ChangeNeedsLogin ==
    [][/\ coupons' # coupons
          => \E p \in DOMAIN req :
                /\ req'[p] # req[p]
                /\ req[p].op \in {"create", "update", "delete"}
                /\ req[p].args.authorization # None
                /\ StartsWith(The(req[p].args.authorization), BEARER)
                /\ Remainder(The(req[p].args.authorization)) \in DOMAIN admin_sessions
       /\ DOMAIN admin_sessions = {} => coupons' = coupons]_vars

\* the fields the body gives as null
NullFields(body) == {f \in DOMAIN body : body[f] = None}

\* C20: no step of an update changes, in any record, a field its body gives
\* as null; no step at all turns a stored logo_url that is not null into
\* null; and an update whose body gives every field as null or not at all
\* never writes to the store.
C20_NullIsOmitted ==
    [][/\ \A p \in DOMAIN req :
             (req[p].op = "update" /\ ~Free(p) /\ req'[p] # req[p])
             => /\ Len(coupons') = Len(coupons)
                /\ \A i \in 1..Len(coupons), f \in NullFields(req[p].args.body) :
                      coupons'[i][f] = coupons[i][f]
                /\ NullFields(req[p].args.body) = DOMAIN req[p].args.body
                   => /\ coupons' = coupons
                      /\ req'[p].pc # "write" /\ ~req'[p].wrote
       /\ \A i \in 1..Len(coupons), j \in 1..Len(coupons') :
             (coupons'[j]["id"] = coupons[i]["id"] /\ coupons[i]["logo_url"] # None)
             => coupons'[j]["logo_url"] # None]_vars

\* an update whose body gives logo_url as null returned a record that still
\* has its logo
C20_Witness ==
    \E p \in DOMAIN req :
       /\ req[p].op = "update" /\ req[p].pc = "done" /\ req[p].status = 200
       /\ "logo_url" \in NullFields(req[p].args.body)
       /\ The(req[p].ret)["logo_url"] # None

====
